---------------------------- MODULE Spec2Model ----------------------------
(***************************************************************************)
(* TextComparer of pandas-text-comparer: the character alignment           *)
(* (_compare_strings, which delegates to difflib.SequenceMatcher with      *)
(* autojunk=False), the markup insertion (_highlight_changes), the per-row *)
(* step (_process_row) and the run()/get_html() lifecycle of one comparer. *)
(*                                                                         *)
(* Two revisions of comparer.py are in the source tree.  They share the    *)
(* alignment and the highlighting and differ in run()'s guard, in the      *)
(* rounding of the ratio and in get_html(); the variable rev selects one.  *)
(*                                                                         *)
(* A text is a sequence of one-character strings.  Offsets are Python's:   *)
(* 0-based, end-exclusive, so Python's s[i] is s[i+1] here.                *)
(* A ratio is an exact fraction <<numerator, denominator>>.                *)
(***************************************************************************)
EXTENDS Integers, Sequences, FiniteSets, TLC

VARIABLES
    rev,          \* which revision of comparer.py is running
    text_a,       \* alignment: the 'original' text of the pair
    text_b,       \* alignment: the 'modified' text of the pair
    pc,           \* alignment: "input", "compared", "highlighted", "row"
    opcodes,      \* alignment: opcodes returned by _compare_strings
    ratio,        \* alignment: ratio returned by _compare_strings
    marked_a,     \* alignment: first string returned by _highlight_changes / _process_row
    marked_b,     \* alignment: second string returned
    highlighted,  \* alignment: whether _process_row called _highlight_changes
    min_ratio,    \* self._min_ratio
    batch,        \* the rows of the df the constructor was given (never changes)
    _df,          \* self._df: the frame still held, None, or never set
    result,       \* self.result: None or the result frame
    nproc,        \* how many times _process_rows has been entered
    last,         \* the last call made on the comparer and how it ended
    html,         \* what the last get_html returned
    tpc,          \* interleaved run(): each caller's position in run()
    tlocal,       \* interleaved run(): the frame a caller has computed, not yet stored
    nwrites,      \* interleaved run(): how many times self.result was assigned
    stale         \* interleaved run(): a caller read self._df after it was set to None

avars == <<text_a, text_b, pc, opcodes, ratio, marked_a, marked_b, highlighted>>

evars == <<batch, _df, result, nproc, last, html>>

cvars == <<tpc, tlocal, nwrites, stale>>

vars == <<rev, min_ratio, avars, evars, cvars>>

----------------------------------------------------------------------------
(* Bounds of the model.                                                    *)

\* longest text of a pair drawn for the alignment
MaxLen == 4

Alphabet == {"a", "b"}

\* Python's None where a text is expected; no text holds this element
NoValue == <<"None">>

REV_NEW == "pandas_text_comparer"
REV_OLD == "pandas-text-comparer"
Revisions == {REV_NEW, REV_OLD}

\* thresholds a caller passes as min_ratio_for_highlight (0.0 is the default)
MinRatios == {<<0, 1>>, <<1, 2>>, <<67, 100>>}

Texts == UNION {[1..n -> Alphabet] : n \in 0..MaxLen}

\* most rows of a df given to the constructor
MaxRows == 2

\* most executions of _process_rows on one comparer
MaxRuns == 2

\* the (column_a, column_b) values a row of the df holds
RowPairs ==
    {<<<<"a", "b">>, <<"a", "b">>>>,
     <<<<"a", "b">>, <<"a">>>>,
     <<<<"a">>, <<"b", "a">>>>,
     <<NoValue, <<"a", "b">>>>,
     <<NoValue, NoValue>>}

Batches == UNION {[1..n -> RowPairs] : n \in 1..MaxRows}

Callers == {1, 2}

----------------------------------------------------------------------------
(* Python helpers.                                                         *)

Min(x, y) == IF x <= y THEN x ELSE y

\* s[lo:hi] with Python's clamping of the bounds
Slice(s, lo, hi) ==
    LET l == Min(lo, Len(s))
        h == Min(hi, Len(s))
    IN  IF l >= h THEN <<>> ELSE SubSeq(s, l + 1, h)

\* s[:pos] + [x] + s[pos:]
InsertAt(s, pos, x) == Slice(s, 0, pos) \o <<x>> \o Slice(s, pos, Len(s))

\* r >= s on exact fractions
RatioGE(r, s) == r[1] * s[2] >= s[1] * r[2]

RatioEq(r, s) == r[1] * s[2] = s[1] * r[2]

\* round(n / d, 2) in hundredths: nearest, an exact tie to the even hundredth
Round2(n, d) ==
    LET q == (100 * n) \div d
        r == (100 * n) % d
    IN  IF 2 * r > d THEN q + 1
        ELSE IF 2 * r < d THEN q
        ELSE IF q % 2 = 0 THEN q ELSE q + 1

----------------------------------------------------------------------------
(* difflib.SequenceMatcher(a, b, autojunk=False), no junk function.        *)

RECURSIVE RunLen(_, _, _, _, _, _)
\* k = newj2len[j] = j2len.get(j-1, 0) + 1 in find_longest_match: the length
\* of the common run that ends at a[i], b[j] and stays inside [alo..), [blo..)
RunLen(a, b, alo, blo, i, j) ==
    IF a[i + 1] # b[j + 1] THEN 0
    ELSE IF i > alo /\ j > blo THEN 1 + RunLen(a, b, alo, blo, i - 1, j - 1)
    ELSE 1

\* find_longest_match(alo, ahi, blo, bhi): <<besti, bestj, bestsize>>.  The
\* loops run over i ascending, then j ascending, and replace the best only
\* for a strictly longer run, so the first longest run in that order wins.
FindLongestMatch(a, b, alo, ahi, blo, bhi) ==
    LET ends == {e \in (alo..(ahi - 1)) \X (blo..(bhi - 1)) :
                    RunLen(a, b, alo, blo, e[1], e[2]) > 0}
        K(e) == RunLen(a, b, alo, blo, e[1], e[2])
    IN  IF ends = {} THEN <<alo, blo, 0>>
        ELSE LET longest == {e \in ends : \A f \in ends : K(f) <= K(e)}
                 first == CHOOSE e \in longest : \A f \in longest :
                              e[1] < f[1] \/ (e[1] = f[1] /\ e[2] <= f[2])
             IN  <<first[1] - K(first) + 1, first[2] - K(first) + 1, K(first)>>

RECURSIVE MatchingBlocksIn(_, _, _, _, _, _)
\* get_matching_blocks' work list, in the order its sort() leaves the blocks
MatchingBlocksIn(a, b, alo, ahi, blo, bhi) ==
    LET m == FindLongestMatch(a, b, alo, ahi, blo, bhi)
        i == m[1]
        j == m[2]
        k == m[3]
    IN  IF k = 0 THEN <<>>
        ELSE (IF alo < i /\ blo < j
                 THEN MatchingBlocksIn(a, b, alo, i, blo, j) ELSE <<>>)
             \o <<m>>
             \o (IF i + k < ahi /\ j + k < bhi
                 THEN MatchingBlocksIn(a, b, i + k, ahi, j + k, bhi) ELSE <<>>)

RECURSIVE Collapse(_, _, _)
\* get_matching_blocks' second loop: adjacent blocks are merged; cur is
\* (i1, j1, k1), out is non_adjacent
Collapse(blocks, cur, out) ==
    IF blocks = <<>>
    THEN IF cur[3] > 0 THEN Append(out, cur) ELSE out
    ELSE LET nxt == Head(blocks)
         IN  IF cur[1] + cur[3] = nxt[1] /\ cur[2] + cur[3] = nxt[2]
             THEN Collapse(Tail(blocks), <<cur[1], cur[2], cur[3] + nxt[3]>>, out)
             ELSE Collapse(Tail(blocks), nxt,
                           IF cur[3] > 0 THEN Append(out, cur) ELSE out)

\* get_matching_blocks(): the blocks, then the sentinel (la, lb, 0)
GetMatchingBlocks(a, b) ==
    Collapse(MatchingBlocksIn(a, b, 0, Len(a), 0, Len(b)), <<0, 0, 0>>, <<>>)
        \o <<<<Len(a), Len(b), 0>>>>

RECURSIVE OpcodesFrom(_, _, _)
\* get_opcodes()' loop over the matching blocks, from position (i, j)
OpcodesFrom(blocks, i, j) ==
    IF blocks = <<>> THEN <<>>
    ELSE LET ai == Head(blocks)[1]
             bj == Head(blocks)[2]
             size == Head(blocks)[3]
             tag == IF i < ai /\ j < bj THEN "replace"
                    ELSE IF i < ai THEN "delete"
                    ELSE IF j < bj THEN "insert"
                    ELSE ""
             gap == IF tag # "" THEN <<<<tag, i, ai, j, bj>>>> ELSE <<>>
             eq == IF size > 0
                   THEN <<<<"equal", ai, ai + size, bj, bj + size>>>> ELSE <<>>
         IN  gap \o eq \o OpcodesFrom(Tail(blocks), ai + size, bj + size)

GetOpcodes(a, b) == OpcodesFrom(GetMatchingBlocks(a, b), 0, 0)

RECURSIVE SumSizes(_)
SumSizes(blocks) ==
    IF blocks = <<>> THEN 0 ELSE Head(blocks)[3] + SumSizes(Tail(blocks))

\* matches in SequenceMatcher.ratio()
Matches(a, b) == SumSizes(GetMatchingBlocks(a, b))

\* _calculate_ratio(matches, length)
CalculateRatio(matches, length) ==
    IF length > 0 THEN <<2 * matches, length>> ELSE <<1, 1>>

\* seq.ratio() taken over the first text alone
SeqRatio_OverFirstText(a, b) == CalculateRatio(Matches(a, b), 2 * Len(a))

\* SequenceMatcher.ratio()
SeqRatio(a, b) == CalculateRatio(Matches(a, b), Len(a) + Len(b))

----------------------------------------------------------------------------
(* TextComparer._compare_strings, _highlight_changes, _process_row.        *)

\* the ratio _compare_strings returns for seq.ratio() = r: the newer
\* revision rounds it to two decimals, the older returns it as it is
ReturnedRatio(r) == IF rev = REV_NEW THEN <<Round2(r[1], r[2]), 100>> ELSE r

\* _compare_strings that hands the texts to SequenceMatcher the other way
\* round: SequenceMatcher(a=text_b, b=text_a)
CompareStrings_SwappedTexts(a, b) ==
    IF a = b THEN [err |-> "", opcodes |-> <<>>, ratio |-> <<1, 1>>]
    ELSE IF a = NoValue \/ b = NoValue
    THEN [err |-> "TypeError", opcodes |-> <<>>, ratio |-> <<0, 1>>]
    ELSE [err |-> "", opcodes |-> GetOpcodes(b, a), ratio |-> ReturnedRatio(SeqRatio(b, a))]

\* _compare_strings without the early return for equal texts
CompareStrings_NoEarlyReturn(a, b) ==
    IF a = NoValue \/ b = NoValue
    THEN [err |-> "TypeError", opcodes |-> <<>>, ratio |-> <<0, 1>>]
    ELSE [err |-> "", opcodes |-> GetOpcodes(a, b), ratio |-> ReturnedRatio(SeqRatio(a, b))]

\* _compare_strings(text_a, text_b): [err, opcodes, ratio].  Equal texts
\* return early; None == None is equal too.  A None text on one side only
\* reaches SequenceMatcher, which raises TypeError (len() / iteration of
\* None).
CompareStrings(a, b) ==
    IF a = b THEN [err |-> "", opcodes |-> <<>>, ratio |-> <<1, 1>>]
    ELSE IF a = NoValue \/ b = NoValue
    THEN [err |-> "TypeError", opcodes |-> <<>>, ratio |-> <<0, 1>>]
    ELSE [err |-> "", opcodes |-> GetOpcodes(a, b), ratio |-> ReturnedRatio(SeqRatio(a, b))]

\* difftag_styles.get(diff_tag); "" stands for None
DifftagStyle(diff_tag) ==
    CASE diff_tag = "replace" -> "<span class='chg'>"
      [] diff_tag = "delete" -> "<span class='sub'>"
      [] diff_tag = "insert" -> "<span class='add'>"
      [] OTHER -> ""

CloseTag == "</span>"

OpenTags == {"<span class='chg'>", "<span class='sub'>", "<span class='add'>"}

\* the loop body with the open tag inserted before the close tag
WrapSpan_OpenTagFirst(lst, start, stop, html_style) ==
    InsertAt(InsertAt(lst, start, html_style), stop, CloseTag)

\* one pass of the loop body for one opcode on one list: the close tag at
\* the span's end first, then the open tag at its start
WrapSpan(lst, start, stop, html_style) ==
    InsertAt(InsertAt(lst, stop, CloseTag), start, html_style)

RECURSIVE ApplyOpcodes(_, _, _, _)
\* for opcode in reversed(opcodes): the opcodes n, n-1, .. 1 applied to the
\* two lists; equal opcodes are skipped
ApplyOpcodes(la, lb, ops, n) ==
    IF n = 0 THEN <<la, lb>>
    ELSE LET op == ops[n]
             html_style == DifftagStyle(op[1])
         IN  IF html_style = "" THEN ApplyOpcodes(la, lb, ops, n - 1)
             ELSE ApplyOpcodes(WrapSpan(la, op[2], op[3], html_style),
                               WrapSpan(lb, op[4], op[5], html_style),
                               ops, n - 1)

\* the characters of one list element: a character of the text is itself,
\* a tag is "<", its inside, ">"
ElementChars(e) ==
    IF e = CloseTag THEN <<"<", "/span", ">">>
    ELSE IF e \in OpenTags THEN <<"<", e, ">">>
    ELSE <<e>>

RECURSIVE Join(_)
\* "".join(lst)
Join(lst) == IF lst = <<>> THEN <<>> ELSE ElementChars(Head(lst)) \o Join(Tail(lst))

\* the return statement of _highlight_changes on the two lists
JoinBoth(done) == [err |-> "", a |-> Join(done[1]), b |-> Join(done[2])]

\* _highlight_changes(text_a, text_b, opcodes): [err, a, b]; list(None)
\* raises TypeError
HighlightChanges(a, b, ops) ==
    IF a = NoValue \/ b = NoValue THEN [err |-> "TypeError", a |-> a, b |-> b]
    ELSE JoinBoth(ApplyOpcodes(a, b, ops, Len(ops)))

\* the row _process_row returns when it has highlighted: h is what
\* _highlight_changes returned
HighlightedRow(r, h) ==
    [err |-> h.err, ratio |-> r, a |-> h.a, b |-> h.b, highlighted |-> TRUE]

\* _process_row after _compare_strings has returned c
ProcessCompared(a, b, c) ==
    IF c.err # ""
    THEN [err |-> c.err, ratio |-> c.ratio, a |-> a, b |-> b, highlighted |-> FALSE]
    ELSE IF RatioGE(c.ratio, min_ratio)
    THEN HighlightedRow(c.ratio, HighlightChanges(a, b, c.opcodes))
    ELSE [err |-> "", ratio |-> c.ratio, a |-> a, b |-> b, highlighted |-> FALSE]

\* _process_row(row): [err, ratio, a, b, highlighted]
ProcessRow(a, b) == ProcessCompared(a, b, CompareStrings(a, b))

----------------------------------------------------------------------------
(* Frames.  self._df and self.result are None, a frame, or (on a comparer  *)
(* made by from_result, which sets no _df) never set.                      *)

NoFrame == [is |-> "None", rows |-> <<>>]

Unset == [is |-> "unset", rows |-> <<>>]

Frame(rows) == [is |-> "frame", rows |-> rows]

NoCall == [op |-> "", outcome |-> "", df |-> NoFrame]

NoHtml == [err |-> "", columns |-> <<>>, rows |-> <<>>]

----------------------------------------------------------------------------
(* The pair specification: one pair of texts, and the three functions      *)
(* applied to it.                                                          *)

AlignInit ==
    /\ rev \in Revisions
    /\ text_a \in Texts
    /\ text_b \in Texts
    /\ min_ratio \in MinRatios
    /\ pc = "input"
    /\ opcodes = <<>>
    /\ ratio = <<0, 1>>
    /\ marked_a = <<>>
    /\ marked_b = <<>>
    /\ highlighted = FALSE
    /\ batch = <<>>
    /\ _df = NoFrame
    /\ result = NoFrame
    /\ nproc = 0
    /\ last = NoCall
    /\ html = NoHtml
    /\ tpc = [t \in Callers |-> "done"]
    /\ tlocal = [t \in Callers |-> NoFrame]
    /\ nwrites = 0
    /\ stale = FALSE

\* opcodes, ratio = self._compare_strings(text_a, text_b)
_compare_strings ==
    /\ pc = "input"
    /\ \E c \in {CompareStrings(text_a, text_b)} :
           /\ opcodes' = c.opcodes
           /\ ratio' = c.ratio
    /\ pc' = "compared"
    /\ UNCHANGED <<rev, min_ratio, text_a, text_b, marked_a, marked_b, highlighted, evars, cvars>>

\* self._highlight_changes(text_a, text_b, opcodes) on the opcodes returned
_highlight_changes ==
    /\ pc = "compared"
    /\ \E h \in {HighlightChanges(text_a, text_b, opcodes)} :
           /\ marked_a' = h.a
           /\ marked_b' = h.b
    /\ pc' = "highlighted"
    /\ UNCHANGED <<rev, min_ratio, text_a, text_b, opcodes, ratio, highlighted, evars, cvars>>

\* self._process_row(row) on the pair
_process_row ==
    /\ pc = "input"
    /\ \E p \in {ProcessRow(text_a, text_b)} :
           /\ ratio' = p.ratio
           /\ marked_a' = p.a
           /\ marked_b' = p.b
           /\ highlighted' = p.highlighted
    /\ pc' = "row"
    /\ UNCHANGED <<rev, min_ratio, text_a, text_b, opcodes, evars, cvars>>

AlignNext == _compare_strings \/ _highlight_changes \/ _process_row

SpecAlign == AlignInit /\ [][AlignNext]_vars

----------------------------------------------------------------------------
(* TextComparer.run and _process_rows.  A row's key is its position.       *)

RECURSIVE ProcessRowsFrom(_, _, _)
RECURSIVE CollectRow(_, _, _, _)
\* apply_method(self._process_row, axis=1, result_type="expand"): the rows
\* in order; the first row that raises ends the whole apply with its error
ProcessRowsFrom(rows, n, acc) ==
    IF n > Len(rows) THEN [err |-> "", rows |-> acc]
    ELSE CollectRow(rows, n, acc, ProcessRow(rows[n][1], rows[n][2]))

\* what apply does with p, the outcome of _process_row on row n
CollectRow(rows, n, acc, p) ==
    IF p.err # "" THEN [err |-> p.err, rows |-> <<>>]
    ELSE ProcessRowsFrom(rows, n + 1,
             Append(acc, [key |-> n, ratio |-> p.ratio, a |-> p.a, b |-> p.b]))

\* _process_rows() with self._df = d: self._df.apply on None raises
\* AttributeError
ProcessRows(d) ==
    IF d.is # "frame" THEN [err |-> "AttributeError", rows |-> <<>>]
    ELSE ProcessRowsFrom(d.rows, 1, <<>>)

\* run() without its test on entry
AlreadyRun_NeverTrue == FALSE

\* run()'s test on entry: the newer revision returns when self.result is
\* set, the older raises ValueError when self._df is None
AlreadyRun == IF rev = REV_NEW THEN result.is # "None" ELSE _df.is = "None"

\* how a run() that finds AlreadyRun ends
AlreadyRunOutcome == IF rev = REV_NEW THEN "returned" ELSE "ValueError"

\* run() that sets self._df = None whether or not _process_rows raised
AfterProcessRows_ReleaseAnyway(p) ==
    IF p.err # ""
    THEN [outcome |-> p.err, result |-> result, df |-> NoFrame]
    ELSE [outcome |-> "ok", result |-> Frame(p.rows), df |-> NoFrame]

\* the two assignments of run() once _process_rows has ended with p: an
\* exception leaves both attributes as they were
AfterProcessRows(p) ==
    IF p.err # ""
    THEN [outcome |-> p.err, result |-> result, df |-> _df]
    ELSE [outcome |-> "ok", result |-> Frame(p.rows), df |-> NoFrame]

----------------------------------------------------------------------------
(* TextComparer.get_html, _get_rows_html, _get_full_html.                  *)

\* the df argument of get_html: None, or an index (row keys, in order) and
\* the names of its columns that are not the two text columns
ProjectionFrame(index, columns) == [is |-> "frame", index |-> index, columns |-> columns]

NoProjection == [is |-> "None", index |-> <<>>, columns |-> <<>>]

Projections ==
    {NoProjection,
     ProjectionFrame(<<1>>, <<>>),
     ProjectionFrame(<<2, 1>>, <<"note">>),
     ProjectionFrame(<<1, MaxRows + 1>>, <<>>)}

\* max_rows: <<>> is None
MaxRowsArgs == {<<>>, <<1>>}

\* sort_by_ratio: "" is None
SortOrder == {"asc", "desc"}

Keys(rows) == {rows[n].key : n \in 1..Len(rows)}

RowOfKey(rows, k) == rows[CHOOSE n \in 1..Len(rows) : rows[n].key = k]

RECURSIVE MergeInner(_, _, _)
\* pd.merge(df, html_df, left_index=True, right_index=True): an inner join
\* on the index, in the order of df's keys; a key of df that html_df lacks
\* gives no row
MergeInner(index, rows, n) ==
    IF n > Len(index) THEN <<>>
    ELSE (IF index[n] \in Keys(rows) THEN <<RowOfKey(rows, index[n])>> ELSE <<>>)
         \o MergeInner(index, rows, n + 1)

RECURSIVE LocRows(_, _, _)
\* html_df.loc[keys], every key known to be in html_df
LocRows(index, rows, n) ==
    IF n > Len(index) THEN <<>>
    ELSE <<RowOfKey(rows, index[n])>> \o LocRows(index, rows, n + 1)

\* a sorts before b (ascending), or after it (descending)
Before(x, y, ascending) ==
    IF ascending THEN x.ratio[1] * y.ratio[2] < y.ratio[1] * x.ratio[2]
    ELSE x.ratio[1] * y.ratio[2] > y.ratio[1] * x.ratio[2]

RECURSIVE InsertSorted(_, _, _)
InsertSorted(sorted, r, ascending) ==
    IF sorted = <<>> THEN <<r>>
    ELSE IF Before(r, sorted[Len(sorted)], ascending)
    THEN Append(InsertSorted(SubSeq(sorted, 1, Len(sorted) - 1), r, ascending),
                sorted[Len(sorted)])
    ELSE Append(sorted, r)

RECURSIVE SortValues(_, _, _)
\* html_df.sort_values(by="ratio", ascending=ascending) on the first n rows;
\* frames this small are sorted by insertion, rows of equal ratio keep their order
SortValues(rows, n, ascending) ==
    IF n = 0 THEN <<>>
    ELSE InsertSorted(SortValues(rows, n - 1, ascending), rows[n], ascending)

\* the sort step of _get_rows_html
Sorted(rows, sort_by_ratio) ==
    IF sort_by_ratio \in SortOrder
    THEN SortValues(rows, Len(rows), sort_by_ratio = "asc")
    ELSE rows

\* islice(iterator, max_rows) and list[slice(max_rows)]
Limited(rows, max_rows) ==
    IF max_rows = <<>> THEN rows ELSE Slice(rows, 0, max_rows[1])

RECURSIVE ExtraCells(_, _, _)
\* the cells of df's own columns in the merged row of key k
ExtraCells(columns, k, n) ==
    IF n > Len(columns) THEN <<>>
    ELSE <<[column |-> columns[n], key |-> k]>> \o ExtraCells(columns, k, n + 1)

\* one row of the newer revision's table: itertuples(index=show_index) of
\* the merged frame
TupleNew(r, columns, show_index) ==
    [index |-> IF show_index THEN <<r.key>> ELSE <<>>,
     extra |-> ExtraCells(columns, r.key, 1),
     ratio |-> r.ratio, a |-> r.a, b |-> r.b]

\* one row of the older revision's table: the row_html _process_row built,
\* with the ratio written as {ratio:.2f}
TupleOld(r) ==
    [index |-> <<>>, extra |-> <<>>,
     ratio |-> <<Round2(r.ratio[1], r.ratio[2]), 100>>, a |-> r.a, b |-> r.b]

RECURSIVE TuplesNew(_, _, _, _)
TuplesNew(rows, columns, show_index, n) ==
    IF n > Len(rows) THEN <<>>
    ELSE <<TupleNew(rows[n], columns, show_index)>>
         \o TuplesNew(rows, columns, show_index, n + 1)

RECURSIVE TuplesOld(_, _)
TuplesOld(rows, n) ==
    IF n > Len(rows) THEN <<>>
    ELSE <<TupleOld(rows[n])>> \o TuplesOld(rows, n + 1)

\* get_html of the newer revision on a result frame
GetHtmlNew(df, show_index, max_rows, sort_by_ratio) ==
    [err |-> "",
     columns |-> (IF show_index THEN <<"#">> ELSE <<>>) \o df.columns
                 \o <<"ratio", "column_a", "column_b">>,
     rows |-> TuplesNew(
                  Limited(Sorted(IF df.is = "None" THEN result.rows
                                 ELSE MergeInner(df.index, result.rows, 1),
                                 sort_by_ratio),
                          max_rows),
                  df.columns, show_index, 1)]

\* get_html of the older revision on a result frame: .loc raises KeyError
\* for a key the result lacks
GetHtmlOld(df, max_rows, sort_by_ratio) ==
    IF df.is # "None" /\ \E n \in 1..Len(df.index) : df.index[n] \notin Keys(result.rows)
    THEN [err |-> "KeyError", columns |-> <<>>, rows |-> <<>>]
    ELSE [err |-> "",
          columns |-> <<"column_a", "column_b", "ratio">>,
          rows |-> TuplesOld(
                       Limited(Sorted(IF df.is = "None" THEN result.rows
                                      ELSE LocRows(df.index, result.rows, 1),
                                      sort_by_ratio),
                               max_rows),
                       1)]

\* get_html(df, show_index, max_rows, sort_by_ratio): self.result.copy()
\* raises AttributeError while self.result is None
GetHtml(df, show_index, max_rows, sort_by_ratio) ==
    IF result.is = "None"
    THEN [err |-> "AttributeError", columns |-> <<>>, rows |-> <<>>]
    ELSE IF rev = REV_NEW THEN GetHtmlNew(df, show_index, max_rows, sort_by_ratio)
    ELSE GetHtmlOld(df, max_rows, sort_by_ratio)

----------------------------------------------------------------------------
(* The comparer specification: one comparer, run() and get_html() called   *)
(* on it one after the other in any order.                                 *)

PairIdle ==
    /\ text_a = <<>>
    /\ text_b = <<>>
    /\ pc = "done"
    /\ opcodes = <<>>
    /\ ratio = <<0, 1>>
    /\ marked_a = <<>>
    /\ marked_b = <<>>
    /\ highlighted = FALSE

CallersIdle ==
    /\ tpc = [t \in Callers |-> "done"]
    /\ tlocal = [t \in Callers |-> NoFrame]
    /\ nwrites = 0
    /\ stale = FALSE

\* TextComparer(df, column_a, column_b, min_ratio_for_highlight)
__init__ ==
    /\ rev \in Revisions
    /\ min_ratio \in MinRatios
    /\ batch \in Batches
    /\ _df = Frame(batch)
    /\ result = NoFrame

\* TextComparer.from_result(result), newer revision only: the result of a
\* comparer that has been run; _df and _min_ratio are not set
from_result ==
    /\ rev = REV_NEW
    /\ min_ratio \in MinRatios
    /\ batch = <<>>
    /\ _df = Unset
    /\ \E b \in Batches : \E p \in {ProcessRowsFrom(b, 1, <<>>)} :
           /\ p.err = ""
           /\ result = Frame(p.rows)

Init ==
    /\ (__init__ \/ from_result)
    /\ nproc = 0
    /\ last = NoCall
    /\ html = NoHtml
    /\ PairIdle
    /\ CallersIdle

\* comparer.run()
run ==
    /\ nproc < MaxRuns
    /\ IF AlreadyRun
       THEN /\ last' = [op |-> "run", outcome |-> AlreadyRunOutcome, df |-> NoFrame]
            /\ UNCHANGED <<result, _df, nproc>>
       ELSE /\ nproc' = nproc + 1
            /\ \E r \in {AfterProcessRows(ProcessRows(_df))} :
                   /\ result' = r.result
                   /\ _df' = r.df
                   /\ last' = [op |-> "run", outcome |-> r.outcome, df |-> NoFrame]
    /\ UNCHANGED <<rev, min_ratio, batch, html, avars, cvars>>

\* comparer.get_html(df, show_index, max_rows, sort_by_ratio); the older
\* revision has no show_index
get_html ==
    /\ \E df \in Projections, max_rows \in MaxRowsArgs, sort_by_ratio \in SortOrder \cup {""} :
       \E show_index \in (IF rev = REV_NEW THEN BOOLEAN ELSE {FALSE}) :
       \E h \in {GetHtml(df, show_index, max_rows, sort_by_ratio)} :
           /\ html' = h
           /\ last' = [op |-> "get_html",
                       outcome |-> IF h.err = "" THEN "ok" ELSE h.err,
                       df |-> [is |-> df.is, rows |-> df.index]]
    /\ UNCHANGED <<rev, min_ratio, batch, _df, result, nproc, avars, cvars>>

Next == run \/ get_html

Spec == Init /\ [][Next]_vars

----------------------------------------------------------------------------
(* The interleaving specification: two callers inside run() on the same    *)
(* comparer, each one step at a time: the test, _process_rows, the         *)
(* assignment of self.result, the assignment of self._df.                  *)

ConcInit ==
    /\ __init__
    /\ nproc = 0
    /\ last = NoCall
    /\ html = NoHtml
    /\ PairIdle
    /\ tpc = [t \in Callers |-> "call"]
    /\ tlocal = [t \in Callers |-> NoFrame]
    /\ nwrites = 0
    /\ stale = FALSE

\* if self.result is not None: return / if self._df is None: raise
run_test(t) ==
    /\ tpc[t] = "call"
    /\ tpc' = [tpc EXCEPT ![t] = IF AlreadyRun THEN "done" ELSE "tested"]
    /\ UNCHANGED <<rev, min_ratio, avars, evars, tlocal, nwrites, stale>>

\* self._process_rows(), which reads self._df
run_process_rows(t) ==
    /\ tpc[t] = "tested"
    /\ nproc' = nproc + 1
    /\ stale' = (stale \/ _df.is = "None")
    /\ \E p \in {ProcessRows(_df)} :
           /\ tlocal' = [tlocal EXCEPT ![t] = Frame(p.rows)]
           /\ tpc' = [tpc EXCEPT ![t] = IF p.err = "" THEN "processed" ELSE "done"]
           /\ last' = [op |-> "run", outcome |-> IF p.err = "" THEN "" ELSE p.err,
                       df |-> NoFrame]
    /\ UNCHANGED <<rev, min_ratio, avars, batch, _df, result, html, nwrites>>

\* self.result = <what _process_rows returned>
run_store_result(t) ==
    /\ tpc[t] = "processed"
    /\ result' = tlocal[t]
    /\ nwrites' = nwrites + 1
    /\ tpc' = [tpc EXCEPT ![t] = "stored"]
    /\ UNCHANGED <<rev, min_ratio, avars, batch, _df, nproc, last, html, tlocal, stale>>

\* self._df = None
run_release_df(t) ==
    /\ tpc[t] = "stored"
    /\ _df' = NoFrame
    /\ tpc' = [tpc EXCEPT ![t] = "done"]
    /\ UNCHANGED <<rev, min_ratio, avars, batch, result, nproc, last, html, tlocal,
                   nwrites, stale>>

ConcNext ==
    \E t \in Callers :
        run_test(t) \/ run_process_rows(t) \/ run_store_result(t) \/ run_release_df(t)

SpecConc == ConcInit /\ [][ConcNext]_vars

----------------------------------------------------------------------------
(* Properties of the alignment and of the highlighting (SpecAlign).        *)

\* the opcodes chain from (0, 0) to (la, lb): every span is well formed,
\* each one starts where the one before ends, none is left out
Contiguous(ops, la, lb) ==
    /\ \A n \in 1..Len(ops) :
          /\ ops[n][2] <= ops[n][3]
          /\ ops[n][4] <= ops[n][5]
          /\ ops[n][2] = (IF n = 1 THEN 0 ELSE ops[n - 1][3])
          /\ ops[n][4] = (IF n = 1 THEN 0 ELSE ops[n - 1][5])
    /\ (IF ops = <<>> THEN 0 ELSE ops[Len(ops)][3]) = la
    /\ (IF ops = <<>> THEN 0 ELSE ops[Len(ops)][5]) = lb

Chars(t) == {t[n] : n \in 1..Len(t)}

RECURSIVE StripMarkup(_, _, _)
\* the string s from position n on with every tag, "<" to ">", removed
StripMarkup(s, n, inside) ==
    IF n > Len(s) THEN <<>>
    ELSE IF inside THEN StripMarkup(s, n + 1, s[n] # ">")
    ELSE IF s[n] = "<" THEN StripMarkup(s, n + 1, TRUE)
    ELSE <<s[n]>> \o StripMarkup(s, n + 1, FALSE)

RECURSIVE Rendered(_, _, _, _)
\* the text t written span by span, front to back, from opcode n on: an equal
\* span as it is, another one between its open tag and the close tag; lo and
\* hi are the positions of the span's bounds in an opcode (2, 3 or 4, 5)
Rendered(t, ops, lo, n) ==
    IF n > Len(ops) THEN <<>>
    ELSE LET span == Slice(t, ops[n][lo], ops[n][lo + 1])
         IN  (IF ops[n][1] = "equal" THEN span
              ELSE <<"<", DifftagStyle(ops[n][1]), ">">> \o span \o <<"<", "/span", ">">>)
             \o Rendered(t, ops, lo, n + 1)

\* C6: with every inserted tag removed the two strings _highlight_changes
\* returns are the two texts again, and each tag pair encloses exactly the
\* span of its opcode: applying the opcodes back to front shifted no offset.
C6_HighlightRoundTrip ==
    pc = "highlighted" =>
        /\ StripMarkup(marked_a, 1, FALSE) = text_a
        /\ StripMarkup(marked_b, 1, FALSE) = text_b
        /\ opcodes # <<>> => /\ marked_a = Rendered(text_a, opcodes, 2, 1)
                             /\ marked_b = Rendered(text_b, opcodes, 4, 1)

C6_Witness ==
    /\ pc = "highlighted"
    /\ Cardinality({n \in 1..Len(opcodes) : opcodes[n][1] # "equal"}) >= 2
    /\ \E n \in 1..Len(opcodes) : opcodes[n][1] = "equal"
    /\ marked_a # text_a

\* the exact ratio of the pair: 1.0 for equal texts, 2*M/(len(A)+len(B)) else
ExactRatio(a, b) == IF a = b THEN <<1, 1>> ELSE SeqRatio(a, b)

\* C7: _process_row highlights the pair exactly when the exact, unrounded
\* ratio is at least min_ratio_for_highlight, and passes the texts through
\* unmodified otherwise.
C7_HighlightIffExactRatio ==
    pc = "row" =>
        /\ highlighted <=> RatioGE(ExactRatio(text_a, text_b), min_ratio)
        /\ ~highlighted => (marked_a = text_a /\ marked_b = text_b)

----------------------------------------------------------------------------
(* Properties of run() and get_html() on one comparer (Spec), and of two   *)
(* interleaved run() calls (SpecConc).                                     *)

\* C1: once self.result holds a result, no later call replaces it or enters
\* _process_rows again, and a later run() returns without effect or raises
\* the already-run error.
C1_OneShotRun ==
    [][result.is = "frame" =>
          /\ result' = result
          /\ nproc' = nproc
          /\ last'.op = "run" => last'.outcome \in {"returned", "ValueError"}]_vars

C1_Witness ==
    /\ result.is = "frame"
    /\ nproc = 1
    /\ html.rows # <<>>
    /\ last.op = "run"
    /\ last.outcome \in {"returned", "ValueError"}

\* C2: two interleaved run() calls on a batch that processes without error:
\* _process_rows is entered by at most one of them, self.result is assigned
\* at most once, and self._df is never read after it was set to None.
C2_RunOnceGate ==
    /\ ProcessRows(Frame(batch)).err = "" => nproc <= 1
    /\ nwrites <= 1
    /\ ~stale

\* C8: get_html with a df whose index holds a key the result lacks fails;
\* it returns no table.
C8_UnmatchedKeyFails ==
    (/\ last.op = "get_html"
     /\ result.is = "frame"
     /\ last.df.is = "frame"
     /\ \E n \in 1..Len(last.df.rows) : last.df.rows[n] \notin Keys(result.rows))
        => html.err # ""

HasNoValue(row) == row[1] = NoValue \/ row[2] = NoValue

\* C9: after run() on a batch, the result holds the record of every row
\* whose two texts are present, whatever the other rows hold.
C9_NullRowFailsOnlyThatRow ==
    (last.op = "run" /\ batch # <<>>) =>
        /\ result.is = "frame"
        /\ \A k \in 1..Len(batch) : ~HasNoValue(batch[k]) => k \in Keys(result.rows)

\* C10: a run() whose row processing raises leaves self.result None and
\* self._df held; a run() on a comparer in that state enters _process_rows
\* again; self.result becomes non-None only in a run() whose row processing
\* ended without error, and then it is what _process_rows returned.
C10_FailedRunLeavesNotRun ==
    [][/\ (last'.op = "run" /\ nproc' = nproc + 1 /\ last'.outcome # "ok") =>
              /\ result.is = "None" /\ result' = result
              /\ _df.is = "frame" /\ _df' = _df
       /\ (last'.op = "run" /\ last.outcome = "TypeError" /\ last.op = "run") =>
              nproc' = nproc + 1
       /\ (result.is = "None" /\ result'.is # "None") =>
              /\ last'.op = "run" /\ last'.outcome = "ok"
              /\ nproc' = nproc + 1
              /\ ProcessRows(_df).err = ""
              /\ result' = Frame(ProcessRows(_df).rows)]_vars

C10_Witness ==
    /\ last.op = "run"
    /\ last.outcome = "TypeError"
    /\ nproc = 2
    /\ result.is = "None"
    /\ _df = Frame(batch)

=============================================================================
